---------------------------- MODULE Spec2Model ----------------------------
(***************************************************************************)
(* A model of bindiff/bindiff.py: the BinDiff session that runs the        *)
(* external differ (_start_diffing), opens the diff store, and propagates  *)
(* the stored function, basic block and instruction matches onto the two   *)
(* program graphs (__init__, _load_function_info, _load_basic_block_info,  *)
(* _load_instruction_info).                                                *)
(*                                                                         *)
(* The store is input.  A row of it is drawn when the code first reads it: *)
(* a function record when the loop of __init__ reaches it, a basic block   *)
(* group when the loop of _load_function_info reaches it, an instruction   *)
(* pair when a loop test first looks at it.  The code reads the store's    *)
(* rows in no other way, so the runs are those of a store drawn whole up   *)
(* front.  MaxStore caps the number of rows of the store.                  *)
(*                                                                         *)
(* SpecOrder runs two sessions on one store given whole, the second with   *)
(* its records (or the groups of its record) in the other order; there the *)
(* propagation is written as functions of the session and the records.     *)
(***************************************************************************)
EXTENDS Integers, Sequences, FiniteSets, TLC

\* ------------------------------------------------------------- bounds
\* Rows of the store (function + basicblock + instruction rows).
MaxStore == 5
\* Rows of the store in the runs of SpecDeep.
MaxDeep == 6
\* Rows of the store in the runs of SpecLive.
MaxLive == 4

\* -------------------------------------------------- the program graphs
\* Python's None, for a match (a reference) and for a number.
None == <<>>
NoValue == -1

\* The two programs: function address -> block address -> instruction
\* addresses.  Block 13 of the primary is shared by its two functions, as
\* block 23 of the secondary; the block boundaries of the two programs
\* differ (10,11 | 12 against 20 | 21,22).
primary ==
    (10 :> (10 :> {10, 11} @@ 12 :> {12} @@ 13 :> {13})) @@
    (13 :> (13 :> {13}))

secondary ==
    (20 :> (20 :> {20} @@ 21 :> {21, 22} @@ 23 :> {23})) @@
    (23 :> (23 :> {23}))

Prog(s) == IF s = 1 THEN primary ELSE secondary

\* Addresses the store may name: every address of the programs.  11 and 21
\* are no function, 11 and 22 no block; 10 is no instruction of function 13.
Addr(s) == IF s = 1 THEN {10, 11, 12, 13} ELSE {20, 21, 22, 23}
FunAddr(s) == IF s = 1 THEN {10, 11, 13} ELSE {20, 21, 23}

FunObjs == {<<s, f>> : s \in {1}, f \in DOMAIN primary}
             \cup {<<s, f>> : s \in {2}, f \in DOMAIN secondary}
BlockObjs == UNION {{<<o[1], o[2], b>> : b \in DOMAIN Prog(o[1])[o[2]]} : o \in FunObjs}
InstObjs == UNION {{<<o[1], o[2], o[3], i>> : i \in Prog(o[1])[o[2]][o[3]]} : o \in BlockObjs}

\* key in f / key in bb
InFun(s, f, b) == b \in DOMAIN Prog(s)[f]
InBlock(s, f, b, i) == i \in Prog(s)[f][b]

RECURSIVE SortedSeq(_)
SortedSeq(S) ==
    IF S = {} THEN <<>>
    ELSE LET m == CHOOSE x \in S : \A y \in S : x <= y
         IN <<m>> \o SortedSeq(S \ {m})

\* f.values(): the blocks of a function, in the order of the mapping.
Values(s, f) == SortedSeq(DOMAIN Prog(s)[f])

\* [x.addr for x in f.values() if i in x]
Containing(s, f, i) == SelectSeq(Values(s, f), LAMBDA b : InBlock(s, f, b, i))

\* bool(x.match): a block object is a non-empty mapping, so it is true.
Truthy(m) == m # None

\* -------------------------------------------------------------- input
\* similarity, confidence in units of 1/10000; algorithm an enum value.
FunValues == {<<9504, 625, 1>>}
BlockAlgos == {1}
MetaRows == {[ok |-> TRUE, similarity |-> 9504, confidence |-> 625],
             [ok |-> FALSE, similarity |-> 9504, confidence |-> 625]}
InstPairs == Addr(1) \X Addr(2)

\* "{0:.3f}".format(x) read back as a float: x, in 1/10000, rounded to a
\* whole number of thousandths, an exact tie to the even thousandth.
Round3(x) ==
    LET q == x \div 10
        r == x % 10
    IN IF r < 5 THEN q * 10
       ELSE IF r > 5 THEN (q + 1) * 10
       ELSE IF q % 2 = 0 THEN q * 10 ELSE (q + 1) * 10

\* Files the differ may leave in the output directory.
Expected == "p_vs_s.BinDiff"
Files == {"p_vs_s.BinDiff", "other.BinDiff", "p.BinExport", "s.BinExport",
          "differ.log"}
Suffix(file) ==
    IF file \in {"p_vs_s.BinDiff", "other.BinDiff"} THEN ".BinDiff"
    ELSE IF file = "differ.log" THEN ".log" ELSE ".BinExport"

\* -------------------------------------------------------------- state
VARIABLES
    pc,           \* position of the session
    err,          \* the exception that ended it, or "none"
    tmp_dir,      \* _start_diffing: the temporary directory exists
    tmp_files,    \* files in it
    out_diff,     \* the file moved to the output path, or "none"
    retcode,      \* the differ's exit code (NoValue: not yet run)
    ret,          \* what _start_diffing returned (NoValue: not yet)
    conn,         \* "none", "open", "closed"
    similarity, confidence,    \* of the session and of both programs
    fun,          \* function object -> similarity, confidence, algorithm, match
    bb,           \* block object -> match, algorithm
    inst,         \* instruction object -> match
    single_match,
    rows,         \* rows the store may still hold, beyond those read
    f_data,       \* the record of the current _load_function_info call
    bb_addr1, bb_addr2, algo,  \* the parameters of _load_basic_block_info
    inst_data,    \* the pairs of inst_data that have been read
    more,         \* inst_data may hold pairs not yet read
    i_addr,       \* the pair popped last
    recs,         \* history: the function records propagated
    grp,          \* history: the current group, as it started, the pairs
                  \* popped from it (read, and pops: how many, a pair put
                  \* back counted once), the pairs put back (requeued),
                  \* whether one is waiting at the front (back), and the
                  \* pairs handed to _load_instruction_info (matched)
    input,        \* a store given whole: its function records, in order
    other         \* the session of the same store read in another order

vars == <<pc, err, tmp_dir, tmp_files, out_diff, retcode, ret, conn, similarity,
          confidence, fun, bb, inst, single_match, rows, f_data,
          bb_addr1, bb_addr2, algo, inst_data, more, i_addr, recs, grp,
          input, other>>

facade == <<tmp_dir, tmp_files, out_diff, retcode, ret>>
meta == <<conn, similarity, confidence>>
graph == <<fun, bb, inst>>
store == <<rows, f_data>>
group == <<bb_addr1, bb_addr2, algo, inst_data, more, i_addr>>
order == <<input, other>>

NoRecord == [addr1 |-> 0, addr2 |-> 0, similarity |-> NoValue,
             confidence |-> NoValue, algo |-> 0]
NoGroup == [bb1 |-> 0, bb2 |-> 0, free |-> FALSE, single |-> <<>>,
            read |-> {}, pops |-> 0, requeued |-> {}, back |-> FALSE,
            matched |-> {}]

\* What a session has written when it starts: no function, block or
\* instruction has a match (the match of a diff class is absent until it is
\* set), single_match is empty, nothing was raised.
Fresh ==
    [fun |-> [o \in FunObjs |-> [similarity |-> NoValue, confidence |-> NoValue,
                                  algorithm |-> 0, match |-> None]],
     bb |-> [o \in BlockObjs |-> [match |-> None, algorithm |-> 0]],
     inst |-> [o \in InstObjs |-> None],
     single_match |-> <<>>,
     err |-> "none"]

\* The state when the session starts at `at`, on a store of at most n rows
\* read row by row, or on the store `in` given whole.  No function, block or
\* instruction has a match yet (the match of a diff class is absent until
\* it is set).
StartOn(at, n, in) ==
    /\ pc = at
    /\ err = "none"
    /\ tmp_dir = FALSE
    /\ tmp_files = {}
    /\ out_diff = "none"
    /\ retcode = NoValue
    /\ ret = NoValue
    /\ conn = "none"
    /\ similarity = NoValue
    /\ confidence = NoValue
    /\ fun = [o \in FunObjs |-> [similarity |-> NoValue, confidence |-> NoValue,
                                 algorithm |-> 0, match |-> None]]
    /\ bb = [o \in BlockObjs |-> [match |-> None, algorithm |-> 0]]
    /\ inst = [o \in InstObjs |-> None]
    /\ single_match = <<>>
    /\ rows = n
    /\ f_data = NoRecord
    /\ bb_addr1 = 0
    /\ bb_addr2 = 0
    /\ algo = 0
    /\ inst_data = <<>>
    /\ more = FALSE
    /\ i_addr = <<0, 0>>
    /\ recs = {}
    /\ grp = NoGroup
    /\ input = in
    /\ other = Fresh

Start(at, n) == StartOn(at, n, <<>>)

\* ------------------------------------------------------ _start_diffing
\* mkdtemp, then the differ runs to its end: it exits with a code and leaves
\* files in the directory.
RunDiffer ==
    /\ pc = "start"
    /\ \E rc \in {0, 1}, left \in SUBSET Files :
         /\ retcode' = rc
         /\ tmp_files' = left
    /\ tmp_dir' = TRUE
    /\ pc' = "locate"
    /\ UNCHANGED <<err, out_diff, ret, meta, graph, single_match, store, group,
                   recs, grp, order>>

\* file.suffix == ".BinExport": a file the directory scan takes.
Candidate(file) == Suffix(file) = ".BinExport"

\* The rest of _start_diffing, and the caller's test of what it returns.
\* iterdir() lists the directory in no order the code fixes: the first
\* candidate is any candidate.  rmtree is the last line alone.
LocateArtifact ==
    /\ pc = "locate"
    /\ IF retcode # 0
       THEN /\ ret' = retcode
            /\ UNCHANGED <<tmp_dir, tmp_files, out_diff>>
       ELSE IF Expected \in tmp_files
       THEN /\ ret' = 0
            /\ out_diff' = Expected
            /\ tmp_dir' = FALSE
            /\ tmp_files' = {}
       ELSE IF \E file \in tmp_files : Candidate(file)
       THEN /\ ret' = 0
            /\ \E file \in tmp_files : Candidate(file) /\ out_diff' = file
            /\ tmp_dir' = FALSE
            /\ tmp_files' = {}
       ELSE /\ ret' = -2
            /\ UNCHANGED <<tmp_dir, tmp_files, out_diff>>
    /\ pc' = IF ret' = 0 THEN "init" ELSE "nosession"
    /\ UNCHANGED <<err, retcode, meta, graph, single_match, store, group, recs,
                   grp, order>>

\* ------------------------------------------------------------ __init__
Raise(e) ==
    /\ pc' = "raised"
    /\ err' = e

\* Lines 35-50: the programs become diff programs, the store is opened, the
\* metadata row is read, parsed and rounded, and set on both programs.
InitSession ==
    /\ pc = "init"
    /\ conn' = "open"
    /\ \E row \in MetaRows :
         IF row.ok
         THEN /\ similarity' = Round3(row.similarity)
              /\ confidence' = Round3(row.confidence)
              /\ pc' = "extract"
              /\ err' = err
         ELSE /\ Raise("ValueError")
              /\ UNCHANGED <<similarity, confidence>>
    /\ UNCHANGED <<facade, order, graph, single_match, store, group, recs, grp>>

\* Lines 53-61: the records are read from the store and grouped.
Extract ==
    /\ pc = "extract"
    /\ pc' = "funs"
    /\ UNCHANGED <<err, facade, order, meta, graph, single_match, store, group, recs, grp>>

\* Line 63: the next function record, or the end of the loop.
NextFunction ==
    /\ pc = "funs"
    /\ \/ /\ rows > 0
          /\ \E a1 \in FunAddr(1), a2 \in FunAddr(2), v \in FunValues :
               f_data' = [addr1 |-> a1, addr2 |-> a2, similarity |-> v[1],
                          confidence |-> v[2], algo |-> v[3]]
          /\ rows' = rows - 1
          /\ pc' = "function"
       \/ /\ pc' = "close"
          /\ UNCHANGED <<rows, f_data>>
    /\ UNCHANGED <<err, facade, order, meta, graph, single_match, group, recs, grp>>

\* Line 65.
Close ==
    /\ pc = "close"
    /\ conn' = "closed"
    /\ pc' = "done"
    /\ UNCHANGED <<err, facade, order, similarity, confidence, graph, single_match,
                   store, group, recs, grp>>

\* ------------------------------------------------- _load_function_info
F1 == <<1, f_data.addr1>>
F2 == <<2, f_data.addr2>>

\* Mutant of MatchFunctions: f1.match, f2.match = f1, f2.
MatchFunctionsSwapped(fs, o1, o2, rec) ==
    [fs EXCEPT ![o1] = [similarity |-> rec.similarity, confidence |-> rec.confidence,
                        algorithm |-> rec.algo, match |-> o1],
               ![o2] = [similarity |-> rec.similarity, confidence |-> rec.confidence,
                        algorithm |-> rec.algo, match |-> o2]]

\* Mutant of MatchFunctions: f2.match is not set.
MatchFunctionsOneWay(fs, o1, o2, rec) ==
    [fs EXCEPT ![o1] = [similarity |-> rec.similarity, confidence |-> rec.confidence,
                        algorithm |-> rec.algo, match |-> o2],
               ![o2] = [similarity |-> rec.similarity, confidence |-> rec.confidence,
                        algorithm |-> rec.algo, match |-> @.match]]

\* Lines 108-111.
MatchFunctions(fs, o1, o2, rec) ==
    [fs EXCEPT ![o1] = [similarity |-> rec.similarity, confidence |-> rec.confidence,
                        algorithm |-> rec.algo, match |-> o2],
               ![o2] = [similarity |-> rec.similarity, confidence |-> rec.confidence,
                        algorithm |-> rec.algo, match |-> o1]]

\* Lines 106-111: self.primary[addr1] and self.secondary[addr2] raise
\* KeyError for an address that is no function; nothing catches it.
LoadFunctionInfo ==
    /\ pc = "function"
    /\ IF F1 \in FunObjs /\ F2 \in FunObjs
       THEN /\ fun' = MatchFunctions(fun, F1, F2, f_data)
            /\ recs' = recs \cup {<<f_data.addr1, f_data.addr2>>}
            /\ pc' = "groups"
            /\ err' = err
       ELSE /\ Raise("KeyError")
            /\ UNCHANGED <<fun, recs>>
    /\ UNCHANGED <<facade, order, meta, bb, inst, single_match, store, group, grp>>

\* Line 113: the next group of the record, or the end of the loop.  A group
\* of the extractor holds at least one pair.
NextGroup ==
    /\ pc = "groups"
    /\ \/ /\ rows > 1
          /\ \E b1 \in Addr(1), b2 \in Addr(2), a \in BlockAlgos, p \in InstPairs :
               /\ bb_addr1' = b1
               /\ bb_addr2' = b2
               /\ algo' = a
               /\ inst_data' = <<p>>
               /\ grp' = [bb1 |-> b1, bb2 |-> b2,
                          free |-> /\ <<1, f_data.addr1, b1>> \in BlockObjs
                                   /\ <<2, f_data.addr2, b2>> \in BlockObjs
                                   /\ bb[<<1, f_data.addr1, b1>>].match = None
                                   /\ bb[<<2, f_data.addr2, b2>>].match = None,
                          single |-> single_match, read |-> {}, pops |-> 0,
                          requeued |-> {}, back |-> FALSE, matched |-> {}]
          /\ more' = TRUE
          /\ rows' = rows - 2
          /\ pc' = "bb_outer"
          /\ UNCHANGED <<f_data, i_addr>>
       \/ /\ pc' = "funs"
          /\ UNCHANGED <<store, group, grp>>
    /\ UNCHANGED <<err, facade, order, meta, graph, single_match, recs>>

\* ---------------------------------------------- _load_basic_block_info
\* The current blocks f1[bb_addr1], f2[bb_addr2].
B1 == <<1, f_data.addr1, bb_addr1>>
B2 == <<2, f_data.addr2, bb_addr2>>

\* The store's next pair of the group, read when a loop test needs to know
\* whether inst_data is empty: one more pair, or none.
ReadRow ==
    /\ pc \in {"bb_outer", "bb_inner"}
    /\ inst_data = <<>>
    /\ more
    /\ \/ /\ rows > 0
          /\ \E p \in InstPairs : inst_data' = <<p>>
          /\ rows' = rows - 1
          /\ more' = more
       \/ /\ more' = FALSE
          /\ UNCHANGED <<inst_data, rows>>
    /\ UNCHANGED <<pc, err, facade, order, meta, graph, single_match, f_data, bb_addr1,
                   bb_addr2, algo, i_addr, recs, grp>>

\* Lines 135-136: a match is set on one of the blocks, and the two are not
\* matched to each other already.
Conflict(m1, m2, o1, o2) ==
    (Truthy(m1) \/ Truthy(m2)) /\ (m1 # o2 \/ m2 # o1)

\* Lines 138-139.
MatchBlocks(bs, o1, o2, a) ==
    [bs EXCEPT ![o1] = [match |-> o2, algorithm |-> a],
               ![o2] = [match |-> o1, algorithm |-> a]]

\* Lines 133-139, one turn of the outer loop: the blocks are looked up
\* (KeyError for an address that is no block of the function), a conflict
\* is printed (bb.match.addr of a block without a match is AttributeError),
\* and the blocks are matched.  With inst_data empty the call returns.
ResolveBlocks ==
    /\ pc = "bb_outer"
    /\ inst_data # <<>> \/ ~more
    /\ IF inst_data = <<>>
       THEN /\ pc' = "bb_ret"
            /\ UNCHANGED <<err, bb>>
       ELSE IF B1 \notin BlockObjs \/ B2 \notin BlockObjs
       THEN /\ Raise("KeyError")
            /\ bb' = bb
       ELSE IF /\ Conflict(bb[B1].match, bb[B2].match, B1, B2)
               /\ (bb[B1].match = None \/ bb[B2].match = None)
       THEN /\ Raise("AttributeError")
            /\ bb' = bb
       ELSE /\ bb' = MatchBlocks(bb, B1, B2, algo)
            /\ pc' = "bb_inner"
            /\ err' = err
    /\ UNCHANGED <<facade, order, meta, fun, inst, single_match, store, group, recs, grp>>

\* Mutant of PopPair: a pair that lies in both current blocks is read and
\* left at the front.
PopPairOnFailure ==
    /\ pc = "bb_inner"
    /\ inst_data # <<>> \/ ~more
    /\ IF inst_data = <<>>
       THEN /\ pc' = "bb_outer"
            /\ UNCHANGED <<inst_data, i_addr, grp>>
       ELSE /\ i_addr' = Head(inst_data)
            /\ IF /\ InBlock(1, f_data.addr1, bb_addr1, Head(inst_data)[1])
                  /\ InBlock(2, f_data.addr2, bb_addr2, Head(inst_data)[2])
               THEN UNCHANGED <<inst_data, grp>>
               ELSE /\ inst_data' = Tail(inst_data)
                    /\ grp' = [grp EXCEPT !.read = @ \cup {Head(inst_data)},
                                           !.pops = IF grp.back THEN @ ELSE @ + 1,
                                           !.back = FALSE]
            /\ pc' = "try"
    /\ UNCHANGED <<err, facade, order, meta, graph, single_match, store, bb_addr1,
                   bb_addr2, algo, more, recs>>

\* Lines 140-141: the test of the inner loop and pop(0).
PopPair ==
    /\ pc = "bb_inner"
    /\ inst_data # <<>> \/ ~more
    /\ IF inst_data = <<>>
       THEN /\ pc' = "bb_outer"
            /\ UNCHANGED <<inst_data, i_addr, grp>>
       ELSE /\ i_addr' = Head(inst_data)
            /\ inst_data' = Tail(inst_data)
            /\ grp' = [grp EXCEPT !.read = @ \cup {Head(inst_data)},
                                   !.pops = IF grp.back THEN @ ELSE @ + 1,
                                   !.back = FALSE]
            /\ pc' = "try"
    /\ UNCHANGED <<err, facade, order, meta, graph, single_match, store, bb_addr1,
                   bb_addr2, algo, more, recs>>

\* ---------------------------------------------- _load_instruction_info
\* Mutant of MatchInsts: an instruction that was matched to one of the two
\* loses its match.
MatchInstsRetract(is, o1, o2) ==
    [o \in DOMAIN is |-> IF o = o1 THEN o2
                         ELSE IF o = o2 THEN o1
                         ELSE IF is[o] \in {o1, o2} THEN None
                         ELSE is[o]]

\* Mutant of MatchInsts: inst2.match is not set.
MatchInstsOneWay(is, o1, o2) == [is EXCEPT ![o1] = o2]

\* Line 165.
MatchInsts(is, o1, o2) == [is EXCEPT ![o1] = o2, ![o2] = o1]

\* Lines 147-148: i if i in f else [x.addr for x in f.values() if i in x],
\* whose [0] is IndexError when the list is empty.
Owner(s, f, i) == IF InFun(s, f, i) THEN <<i>> ELSE Containing(s, f, i)

I1 == i_addr[1]
I2 == i_addr[2]
O1 == <<1, f_data.addr1, Head(Owner(1, f_data.addr1, I1))>>
O2 == <<2, f_data.addr2, Head(Owner(2, f_data.addr2, I2))>>

\* Mutant of Orphan: the pair is dropped.
OrphanDropped(sm, p) == sm

\* Lines 151, 155: self.single_match.append((i_addr1, i_addr2)).
Orphan(sm, p) == Append(sm, p)

\* Mutant of OwnerMatched: "and" for "or".
OwnerMatchedBoth == Truthy(bb[O1].match) /\ Truthy(bb[O2].match)

\* Line 149.
OwnerMatched == Truthy(bb[O1].match) \/ Truthy(bb[O2].match)

\* Lines 142-156: the pair is matched in the current blocks; or, found in
\* neither, it is put back for the blocks that own it (when neither is
\* matched) or appended to single_match; or, found in one, it is appended
\* to single_match.  bb_addr1 and bb_addr2 are assigned before line 149.
TryPair ==
    /\ pc = "try"
    /\ LET in1 == InBlock(1, f_data.addr1, bb_addr1, I1)
           in2 == InBlock(2, f_data.addr2, bb_addr2, I2)
       IN IF in1 /\ in2
          THEN /\ inst' = MatchInsts(inst, B1 \o <<I1>>, B2 \o <<I2>>)
               /\ grp' = [grp EXCEPT !.matched = @ \cup {i_addr}]
               /\ pc' = "bb_inner"
               /\ UNCHANGED <<err, single_match, bb_addr1, bb_addr2, inst_data>>
          ELSE IF in1 \/ in2
          THEN /\ single_match' = Orphan(single_match, i_addr)
               /\ pc' = "bb_outer"
               /\ UNCHANGED <<err, inst, bb_addr1, bb_addr2, inst_data, grp>>
          ELSE IF \/ Owner(1, f_data.addr1, I1) = <<>>
                  \/ Owner(2, f_data.addr2, I2) = <<>>
          THEN /\ Raise("IndexError")
               /\ UNCHANGED <<inst, single_match, bb_addr1, bb_addr2, inst_data, grp>>
          ELSE /\ bb_addr1' = O1[3]
               /\ bb_addr2' = O2[3]
               /\ IF OwnerMatched
                  THEN /\ single_match' = Orphan(single_match, i_addr)
                       /\ UNCHANGED <<inst_data, grp>>
                  ELSE /\ inst_data' = <<i_addr>> \o inst_data
                       /\ grp' = [grp EXCEPT !.requeued = @ \cup {i_addr},
                                              !.back = TRUE]
                       /\ single_match' = single_match
               /\ pc' = "bb_outer"
               /\ UNCHANGED <<err, inst>>
    /\ UNCHANGED <<facade, order, meta, fun, bb, store, algo, more, i_addr, recs>>

\* The call returns to the loop of _load_function_info.
ReturnGroup ==
    /\ pc = "bb_ret"
    /\ pc' = "groups"
    /\ grp' = NoGroup
    /\ UNCHANGED <<err, facade, order, meta, graph, single_match, store, group, recs>>

\* ------------------------------------------------ a store given whole
\* The same propagation as functions of a session S (what Fresh lists) and
\* of the records, for a store whose rows are all known: a record is
\* [addr1, addr2, similarity, confidence, algo, groups], a group
\* [bb1, bb2, algo, pairs].  An exception ends the constructor: nothing
\* runs after it.
RECURSIVE load_basic_block_info(_, _, _, _, _, _, _), drain(_, _, _, _, _, _, _)

\* Lines 133-139: one turn of the outer loop on the blocks b1, b2 of the
\* functions a1, a2, then the inner loop.
load_basic_block_info(S, a1, a2, b1, b2, a, data) ==
    LET o1 == <<1, a1, b1>>
        o2 == <<2, a2, b2>>
    IN IF data = <<>> THEN S
       ELSE IF o1 \notin BlockObjs \/ o2 \notin BlockObjs
       THEN [S EXCEPT !.err = "KeyError"]
       ELSE IF /\ Conflict(S.bb[o1].match, S.bb[o2].match, o1, o2)
               /\ (S.bb[o1].match = None \/ S.bb[o2].match = None)
       THEN [S EXCEPT !.err = "AttributeError"]
       ELSE drain([S EXCEPT !.bb = MatchBlocks(S.bb, o1, o2, a)], a1, a2, b1, b2, a, data)

\* Lines 140-156: the inner loop; a break goes back to the outer loop with
\* bb_addr1, bb_addr2 as lines 147-148 left them.
drain(S, a1, a2, b1, b2, a, data) ==
    IF data = <<>> THEN S
    ELSE LET p == Head(data)
             rest == Tail(data)
             in1 == InBlock(1, a1, b1, p[1])
             in2 == InBlock(2, a2, b2, p[2])
             n1 == Head(Owner(1, a1, p[1]))
             n2 == Head(Owner(2, a2, p[2]))
         IN IF in1 /\ in2
            THEN drain([S EXCEPT !.inst = MatchInsts(S.inst, <<1, a1, b1, p[1]>>,
                                                     <<2, a2, b2, p[2]>>)],
                       a1, a2, b1, b2, a, rest)
            ELSE IF in1 \/ in2
            THEN load_basic_block_info([S EXCEPT !.single_match = Orphan(@, p)],
                                       a1, a2, b1, b2, a, rest)
            ELSE IF Owner(1, a1, p[1]) = <<>> \/ Owner(2, a2, p[2]) = <<>>
            THEN [S EXCEPT !.err = "IndexError"]
            ELSE IF Truthy(S.bb[<<1, a1, n1>>].match) \/ Truthy(S.bb[<<2, a2, n2>>].match)
            THEN load_basic_block_info([S EXCEPT !.single_match = Orphan(@, p)],
                                       a1, a2, n1, n2, a, rest)
            ELSE load_basic_block_info(S, a1, a2, n1, n2, a, <<p>> \o rest)

\* Lines 113-114: the groups of a record, in the order of the mapping.
RECURSIVE load_groups(_, _, _, _)
load_groups(S, a1, a2, groups) ==
    IF groups = <<>> \/ S.err # "none" THEN S
    ELSE LET g == Head(groups)
         IN load_groups(load_basic_block_info(S, a1, a2, g.bb1, g.bb2, g.algo, g.pairs),
                        a1, a2, Tail(groups))

\* Lines 106-114.
load_function_info(S, rec) ==
    IF <<1, rec.addr1>> \notin FunObjs \/ <<2, rec.addr2>> \notin FunObjs
    THEN [S EXCEPT !.err = "KeyError"]
    ELSE load_groups([S EXCEPT !.fun = MatchFunctions(S.fun, <<1, rec.addr1>>,
                                                      <<2, rec.addr2>>, rec)],
                     rec.addr1, rec.addr2, rec.groups)

\* Mutant of Propagate: the loop ends once single_match holds a pair.
RECURSIVE PropagateUntilOrphan(_, _)
PropagateUntilOrphan(S, funs) ==
    IF funs = <<>> \/ S.err # "none" \/ S.single_match # <<>> THEN S
    ELSE PropagateUntilOrphan(load_function_info(S, Head(funs)), Tail(funs))

\* Lines 63-64: the records, in the order of the mapping.
RECURSIVE Propagate(_, _)
Propagate(S, funs) ==
    IF funs = <<>> \/ S.err # "none" THEN S
    ELSE Propagate(load_function_info(S, Head(funs)), Tail(funs))

\* The stores of the runs that compare two orders: two records of at most
\* one group of one pair each, or one record of two groups, the first of at
\* most two pairs.  The blocks a group declares and its pairs are drawn
\* from OrderPairs (11 and 22 are no block).
OrderPairs == {<<10, 20>>, <<10, 21>>, <<11, 22>>, <<12, 20>>, <<12, 21>>, <<13, 23>>}

GroupsOf(lists) ==
    {[bb1 |-> d[1], bb2 |-> d[2], algo |-> a, pairs |-> l] :
        d \in OrderPairs, a \in BlockAlgos, l \in lists}

Records(funs1, funs2, groupings) ==
    {[addr1 |-> a1, addr2 |-> a2, similarity |-> v[1], confidence |-> v[2],
      algo |-> v[3], groups |-> gs] :
        a1 \in funs1, a2 \in funs2, v \in FunValues, gs \in groupings}

OnePair == {<<p>> : p \in OrderPairs}
UpToTwoPairs == OnePair \cup {<<p, q>> : p \in OrderPairs, q \in OrderPairs}

SmallRecords ==
    Records(FunAddr(1), FunAddr(2), {<<>>} \cup {<<g>> : g \in GroupsOf(OnePair)})

TwoGroupRecords ==
    Records(DOMAIN primary, DOMAIN secondary,
            {<<g, h>> : g \in GroupsOf(UpToTwoPairs), h \in GroupsOf(OnePair)})

\* The same rows read in another order: two records swapped, or the two
\* groups of one record swapped.
Reordered(in) ==
    IF Len(in) = 2 THEN <<in[2], in[1]>>
    ELSE <<[in[1] EXCEPT !.groups = <<@[2], @[1]>>]>>

\* A session propagates the records of input.
RunInOrder ==
    /\ pc = "order"
    /\ LET S == Propagate(Fresh, input)
       IN /\ fun' = S.fun
          /\ bb' = S.bb
          /\ inst' = S.inst
          /\ single_match' = S.single_match
          /\ err' = S.err
    /\ pc' = "reorder"
    /\ UNCHANGED <<facade, meta, store, group, recs, grp, order>>

\* Another session, on the same programs as they were, propagates the same
\* records in the other order.
RunReordered ==
    /\ pc = "reorder"
    /\ other' = Propagate(Fresh, Reordered(input))
    /\ pc' = "compared"
    /\ UNCHANGED <<err, facade, meta, graph, single_match, store, group, recs,
                   grp, input>>

NextDiffer ==
    \/ RunDiffer
    \/ LocateArtifact

SpecDiffer == Start("start", 0) /\ [][NextDiffer]_vars

Init == Start("init", MaxStore)

Next ==
    \/ InitSession
    \/ Extract
    \/ NextFunction
    \/ LoadFunctionInfo
    \/ NextGroup
    \/ ReadRow
    \/ ResolveBlocks
    \/ PopPair
    \/ TryPair
    \/ ReturnGroup
    \/ Close

Spec == Init /\ [][Next]_vars

\* The same session on a store of up to MaxDeep rows.
SpecDeep == Start("init", MaxDeep) /\ [][Next]_vars

\* The session on a store of up to MaxLive rows; the interpreter runs the
\* constructor's next step as long as there is one.
SpecLive == Start("init", MaxLive) /\ [][Next]_vars /\ WF_vars(Next)

NextOrder ==
    \/ RunInOrder
    \/ RunReordered

\* Two sessions on one store, read in two orders.
SpecOrder ==
    /\ \/ \E r \in SmallRecords, q \in SmallRecords : StartOn("order", 0, <<r, q>>)
       \/ \E r \in TwoGroupRecords : StartOn("order", 0, <<r>>)
    /\ [][NextOrder]_vars

\* -------------------------------------------------------------- claims
\* The blocks the current group declared, and the instructions of a pair in
\* them.
D1 == <<1, f_data.addr1, grp.bb1>>
D2 == <<2, f_data.addr2, grp.bb2>>

\* Every pair popped from the group lies in the declared blocks, which had
\* no match when the group started.
AllDeclared ==
    /\ grp.free
    /\ \A p \in grp.read : /\ InBlock(1, f_data.addr1, grp.bb1, p[1])
                           /\ InBlock(2, f_data.addr2, grp.bb2, p[2])

\* No two pairs popped from the group share a primary or a secondary address.
OneToOne ==
    \A p, q \in grp.read : p # q => p[1] # q[1] /\ p[2] # q[2]

AllMatched ==
    /\ bb[D1].match = D2
    /\ bb[D2].match = D1
    /\ \A p \in grp.read : /\ inst[D1 \o <<p[1]>>] = D2 \o <<p[2]>>
                           /\ inst[D2 \o <<p[2]>>] = D1 \o <<p[1]>>
    /\ single_match = grp.single

\* C1, as stated: when _load_basic_block_info returns from a group whose
\* pairs all lie in the declared blocks, unmatched before, the two blocks
\* are matched to each other, the instructions of every pair are matched to
\* each other, and single_match is what it was.
C1_AsStated == (pc = "bb_ret" /\ AllDeclared) => AllMatched

\* C1, amended: the same, for a group in which no two pairs share a primary
\* or a secondary instruction address (a later pair overwrites the match of
\* an instruction an earlier pair matched).
C1_DeclaredGroupMatched == (pc = "bb_ret" /\ AllDeclared /\ OneToOne) => AllMatched

C1_Witness ==
    /\ pc = "bb_ret"
    /\ AllDeclared
    /\ OneToOne
    /\ Cardinality(grp.read) >= 2
    /\ AllMatched

\* No two function records share a primary or a secondary address.
NoConflicts ==
    \A r, q \in recs : r # q => r[1] # q[1] /\ r[2] # q[2]

\* C2: with no two function records sharing an address, once every record
\* has been propagated the functions of every record are matched to each
\* other, and the match of every matched function is matched back to it.
C2_FunctionsSymmetric ==
    (pc \in {"close", "done"} /\ NoConflicts) =>
        /\ \A r \in recs : /\ fun[<<1, r[1]>>].match = <<2, r[2]>>
                           /\ fun[<<2, r[2]>>].match = <<1, r[1]>>
        /\ \A o \in FunObjs : fun[o].match # None => fun[fun[o].match].match = o

C2_Witness ==
    /\ pc = "done"
    /\ NoConflicts
    /\ Cardinality(recs) = 2
    /\ \A r \in recs : fun[<<1, r[1]>>].match = <<2, r[2]>>

\* The popped pair lies in neither current block and both addresses lie in a
\* block of their function.
MissesBoth ==
    /\ pc = "try"
    /\ ~InBlock(1, f_data.addr1, bb_addr1, I1)
    /\ ~InBlock(2, f_data.addr2, bb_addr2, I2)
    /\ Containing(1, f_data.addr1, I1) # <<>>
    /\ Containing(2, f_data.addr2, I2) # <<>>

\* The blocks of the two functions that hold the instructions of a pair.
OwnerOf(s, i) ==
    <<s, (IF s = 1 THEN f_data.addr1 ELSE f_data.addr2),
      Head(Containing(s, (IF s = 1 THEN f_data.addr1 ELSE f_data.addr2), i))>>

\* C3, for a group in which no two pairs share an address: when
\* _load_basic_block_info returns, the blocks that own a pair that was put
\* back are matched to each other, its instructions are matched to each
\* other, and the pair was not appended to single_match.
C3_RecoveredPairMatched ==
    (pc = "bb_ret" /\ Cardinality(grp.read) = grp.pops /\ OneToOne) =>
        \A p \in grp.requeued :
            LET o1 == OwnerOf(1, p[1])
                o2 == OwnerOf(2, p[2])
            IN /\ bb[o1].match = o2
               /\ bb[o2].match = o1
               /\ inst[o1 \o <<p[1]>>] = o2 \o <<p[2]>>
               /\ inst[o2 \o <<p[2]>>] = o1 \o <<p[1]>>
               /\ \A k \in (Len(grp.single) + 1)..Len(single_match) :
                      single_match[k] # p

\* C4: a pair found in neither current block, one of whose owning blocks has
\* a match, is appended to single_match once; it is not put back and no
\* instruction is matched.
C4_OwnerMatchedToSingle ==
    [][(/\ MissesBoth
        /\ (bb[OwnerOf(1, I1)].match # None \/ bb[OwnerOf(2, I2)].match # None))
       => /\ single_match' = Append(single_match, i_addr)
          /\ inst' = inst
          /\ inst_data' = inst_data
          /\ err' = "none"]_vars

\* The pair appended last is the popped one, and the current blocks are the
\* blocks that own it: line 151 has run (line 155 leaves the current blocks,
\* one of which does not hold its instruction).
C4_Witness ==
    /\ pc = "bb_outer"
    /\ Len(single_match) = Len(grp.single) + 1
    /\ single_match[Len(single_match)] = i_addr
    /\ Containing(1, f_data.addr1, I1) # <<>>
    /\ Containing(2, f_data.addr2, I2) # <<>>
    /\ B1 = OwnerOf(1, I1)
    /\ B2 = OwnerOf(2, I2)
    /\ (bb[B1].match = None \/ bb[B2].match = None)

\* C5: a group whose declared blocks exist and of which one has a match that
\* is not the other is reported without raising, and the two blocks are
\* then matched to each other.
C5_ConflictOverwrites ==
    [][(/\ pc = "bb_outer"
        /\ inst_data # <<>>
        /\ B1 \in BlockObjs
        /\ B2 \in BlockObjs
        /\ (bb[B1].match # None \/ bb[B2].match # None)
        /\ ~(bb[B1].match = B2 /\ bb[B2].match = B1))
       => /\ err' = "none"
          /\ bb'[B1].match = B2
          /\ bb'[B2].match = B1]_vars

\* C6: a pair that misses a current block, with an address that lies in no
\* block of its function, is appended to single_match and nothing is raised.
C6_NowhereToSingle ==
    [][(/\ pc = "try"
        /\ (~InBlock(1, f_data.addr1, bb_addr1, I1) \/ ~InBlock(2, f_data.addr2, bb_addr2, I2))
        /\ (Containing(1, f_data.addr1, I1) = <<>> \/ Containing(2, f_data.addr2, I2) = <<>>))
       => /\ err' = "none"
          /\ single_match' = Append(single_match, i_addr)
          /\ pc' = "bb_outer"]_vars

\* C7: a function record with an address that is no function of its program
\* is skipped: nothing is annotated, nothing is raised, and the loop goes on
\* to the next record.
C7_AbsentFunctionSkipped ==
    [][(/\ pc = "function"
        /\ (F1 \notin FunObjs \/ F2 \notin FunObjs))
       => /\ err' = "none"
          /\ pc' = "funs"
          /\ UNCHANGED graph]_vars

\* C8: when _start_diffing has returned, the temporary directory is gone.
C8_TmpDirRemoved == pc \in {"init", "nosession"} => ~tmp_dir

\* C9: the differ ended with 0 and left no file of the expected name: a file
\* with the suffix of the expected name, if there is one, is moved to the
\* output path and 0 is returned; -2 is returned when there is none.
C9_FallbackTakesDiffFile ==
    [][(/\ pc = "locate"
        /\ retcode = 0
        /\ Expected \notin tmp_files)
       => IF \E file \in tmp_files : Suffix(file) = Suffix(Expected)
          THEN /\ ret' = 0
               /\ out_diff' \in tmp_files
               /\ Suffix(out_diff') = Suffix(Expected)
          ELSE ret' = -2]_vars

\* How often a pair occurs in a list.
Count(list, p) == Cardinality({k \in 1..Len(list) : list[k] = p})

\* The two sessions left the same annotations on the programs, and the same
\* pairs in single_match.
SameResult ==
    /\ fun = other.fun
    /\ bb = other.bb
    /\ inst = other.inst
    /\ \A p \in InstPairs : Count(single_match, p) = Count(other.single_match, p)

DistinctRecords ==
    /\ Len(input) = 2
    /\ input[1].addr1 # input[2].addr1
    /\ input[1].addr2 # input[2].addr2

Rounded(x) == x \in 0..10000 /\ x % 10 = 0

\* C12: after construction the similarity and the confidence of the session
\* (and of the two programs, which are given the session's) and of every
\* matched function are whole numbers of thousandths in [0, 1].
C12_AllRounded ==
    pc = "done" =>
        /\ Rounded(similarity)
        /\ Rounded(confidence)
        /\ \A o \in FunObjs :
               fun[o].match # None => /\ Rounded(fun[o].similarity)
                                      /\ Rounded(fun[o].confidence)

\* C13: when the constructor has ended, by returning or by raising, the
\* connection it opened is closed.
C13_ConnClosed == pc \in {"done", "raised"} => conn = "closed"

\* C14: no step of the session takes the match of a function, of a basic
\* block or of an instruction away: what carries a match before a step
\* carries one after it.
C14_MatchesKept ==
    [][/\ \A o \in FunObjs : fun[o].match # None => fun'[o].match # None
       /\ \A o \in BlockObjs : bb[o].match # None => bb'[o].match # None
       /\ \A o \in InstObjs : inst[o] # None => inst'[o] # None]_vars

\* An instruction was matched again: the instruction it was matched to
\* before still carries its match.
C14_Witness ==
    /\ pc = "bb_inner"
    /\ \E o \in InstObjs : inst[o] # None /\ inst[inst[o]] # o

\* C15: a pair that was put back at the front is not put back again, and a
\* call of _load_basic_block_info that has started returns (its list is
\* empty then) or raises.
C15_DrainTerminates ==
    /\ [][(pc = "try" /\ i_addr \in grp.requeued)
            => inst_data' # <<i_addr>> \o inst_data]_vars
    /\ (pc = "bb_outer") ~> (pc = "bb_ret" \/ err # "none")

\* The call returns from a group of which a pair was put back and popped
\* again.
C15_Witness ==
    /\ pc = "bb_ret"
    /\ grp.requeued # {}
    /\ grp.requeued \subseteq grp.matched
    /\ inst_data = <<>>

\* The pairs the current group has appended to single_match.
Orphans == SubSeq(single_match, Len(grp.single) + 1, Len(single_match))

\* C16: when _load_basic_block_info returns from a group of pairwise
\* distinct pairs, every pair was either handed to _load_instruction_info
\* and is not among the pairs the group appended to single_match, or was
\* appended once and not matched; the matched pairs and the appended ones
\* are as many as the pairs of the group.
C16_EveryPairOnce ==
    (pc = "bb_ret" /\ Cardinality(grp.read) = grp.pops) =>
        /\ \A p \in grp.read :
               \/ p \in grp.matched /\ Count(Orphans, p) = 0
               \/ p \notin grp.matched /\ Count(Orphans, p) = 1
        /\ Cardinality(grp.matched) + Len(Orphans) = grp.pops

\* A group of three pairs returns: one was put back and matched, one was
\* appended to single_match.
C16_Witness ==
    /\ pc = "bb_ret"
    /\ Cardinality(grp.read) = grp.pops
    /\ grp.pops = 3
    /\ grp.requeued # {}
    /\ grp.requeued \subseteq grp.matched
    /\ Len(Orphans) >= 1

\* C17: the step that appends to single_match a pair found in neither
\* current block, because a block that owns it has a match, leaves the
\* matches of the blocks and the current block pair as they were: the pairs
\* that remain are resolved against the same blocks as before.
C17_SingleKeepsCurrent ==
    [][(/\ MissesBoth
        /\ (bb[OwnerOf(1, I1)].match # None \/ bb[OwnerOf(2, I2)].match # None))
       => /\ bb' = bb
          /\ bb_addr1' = bb_addr1
          /\ bb_addr2' = bb_addr2]_vars

\* C18 (for sessions that raise nothing): the two groups of a function
\* record, propagated in either order, leave the same block matches, the
\* same instruction matches and the same set of pairs in single_match.
C18_GroupsCommute ==
    (pc = "compared" /\ Len(input) = 1 /\ err = "none" /\ other.err = "none") =>
        /\ bb = other.bb
        /\ inst = other.inst
        /\ {single_match[k] : k \in DOMAIN single_match}
             = {other.single_match[k] : k \in DOMAIN other.single_match}

\* C19: no two basic blocks of one program are matched to the same basic
\* block of the other program.
C19_BlocksOneToOne ==
    \A o, q \in BlockObjs :
        (o # q /\ o[1] = q[1] /\ bb[o].match # None) => bb[o].match # bb[q].match

\* The function a block belongs to.
FunOf(o) == <<o[1], o[2]>>

\* Every matched block is matched to a block of the function its own
\* function is matched to.
MatchesInside ==
    \A o \in BlockObjs : bb[o].match # None => FunOf(bb[o].match) = fun[FunOf(o)].match

\* C20, as stated: in every state of the propagation, a block with a match
\* is matched to a block of the function its function is matched to.
C20_AsStated == MatchesInside

\* C20, amended: the same, as long as no two of the function records
\* propagated so far share a primary or a secondary address.
C20_MatchesInsideMatchedFunction == NoConflicts => MatchesInside

C20_Witness ==
    /\ pc = "done"
    /\ NoConflicts
    /\ Cardinality(recs) = 2
    /\ \E o \in BlockObjs : bb[o].match # None
    /\ MatchesInside

==========================================================================
